---- MODULE Spec2Model ----
(***************************************************************************)
(* Model of the studio page of ogto/eyes-studio (src/app/studio/page.tsx,  *)
(* last revision in the file, lines 391-786, and the polygon revision of   *)
(* the overlay renderer, src/unnamed/part_000).                            *)
(*                                                                         *)
(* The page is a React component.  Its state is the useState/useRef cells, *)
(* the <video> and <canvas> elements, the camera stream, the list of       *)
(* requestAnimationFrame callbacks the browser holds, and the clock.       *)
(* Every action is one task of the browser's event loop: a promise         *)
(* continuation, a DOM event handler, an animation-frame callback, or      *)
(* React's flush of the render effect.                                     *)
(*                                                                         *)
(* Numbers are fixed point.  Normalised landmark coordinates and the       *)
(* style's offsetY are in thousandths, thickness in tenths, arch strength  *)
(* in ten-thousandths, sin() in thousandths; a pixel coordinate is held in *)
(* ten-millionths of a pixel.                                              *)
(***************************************************************************)
EXTENDS Integers, Sequences, FiniteSets, TLC

VARIABLES
  mounted,          \* the view is mounted (refs are non-null, setState acts)
  camera,           \* getUserMedia promise: "pending" | "granted" | "denied"
  stream,           \* closure variable `stream`: "null" | "running" | "stopped"
  srcObject,        \* video.srcObject is set and onloadedmetadata installed
  video,            \* [readyState, w, h] of the <video> element
  model,            \* landmarker promise chain: "loading" | "loaded" | "failed"
  landmarkerRef,    \* landmarkerRef.current is non-null
  cameraReady,      \* useState cameraReady
  landmarkerReady,  \* useState landmarkerReady
  errorMsg,         \* useState errorMsg: "null" | "camera" | "model"
  selectedStyleId,  \* useState selectedStyleId
  captures,         \* useState captures: sequence of [url, createdAt]
  canvas,           \* [w, h, content] of the <canvas> element
  lastVideoTime,    \* lastVideoTimeRef.current
  clock,            \* time, in ticks of the clocks' resolution
  pending,          \* animation-frame callbacks the browser holds
  frameId,          \* `frameId` of the installed render effect, 0 when none
  effDeps,          \* dependency values the render effect last ran with
  last,             \* what the most recent render() call did, and whether
                    \* landmarkerRef and landmarkerReady were set when it ran
  guardLog,         \* timestamps read by render() calls that reached the guard
  inferLog,         \* timestamps passed to detectForVideo, in call order
  trigLog,          \* surface and time at each capture trigger, in trigger order
  frameInfers,      \* detectForVideo calls made on the frame the video presents
  probe,            \* input of the pure-function specification
  probeOut          \* result of the pure-function specification

vars == <<mounted, camera, stream, srcObject, video, model, landmarkerRef,
          cameraReady, landmarkerReady, errorMsg, selectedStyleId, captures,
          canvas, lastVideoTime, clock, pending, frameId, effDeps, last,
          guardLog, inferLog, trigLog, frameInfers, probe, probeOut>>

(***************************************************************************)
(* Bounds of the model.                                                    *)
(***************************************************************************)
MaxLog == 4
MaxClock == 1
MaxCaptures == 2

(***************************************************************************)
(* Program constants.                                                      *)
(***************************************************************************)
\* the five style records (id, thickness in tenths, offsetY in thousandths)
styles ==
  << [id |-> "natural",     thickness |-> 10, offsetY |-> 0],
     [id |-> "soft-flat",   thickness |-> 13, offsetY |-> -3],
     [id |-> "flat",        thickness |-> 16, offsetY |-> -6],
     [id |-> "arch",        thickness |-> 14, offsetY |-> -10],
     [id |-> "strong-arch", thickness |-> 19, offsetY |-> -14] >>

LEFT_EYEBROW == <<52, 65, 55, 107, 66, 105, 63, 70, 156>>
RIGHT_EYEBROW == <<282, 295, 285, 336, 296, 334, 293, 300, 383>>

\* a fresh <canvas> is 300 x 150 and transparent
DefaultCanvas == [w |-> 300, h |-> 150, content |-> "blank"]

\* the <video> element before any source is attached
NoVideo == [readyState |-> 0, w |-> 0, h |-> 0]

(***************************************************************************)
(* Inputs the environment can supply.                                      *)
(***************************************************************************)
\* natural sizes the camera can deliver (0 x 0: no frame decoded yet)
VideoDims == { <<0, 0>>, <<4, 3>>, <<3, 4>> }

\* states of a <video> that has metadata: HAVE_METADATA (1, nothing to draw
\* yet) or HAVE_CURRENT_DATA (2), with the natural size known or not
VideoStates == { [readyState |-> 1, w |-> 0, h |-> 0] }
               \cup { [readyState |-> 2, w |-> d[1], h |-> d[2]] : d \in VideoDims }

\* a Landmark Set of n points; point i (0-based) is at x = i mod 1000,
\* y = 400 thousandths
MkLandmarks(n) == [i \in 1..n |-> [x |-> (i - 1) % 1000, y |-> 400]]

\* lengths of the Landmark Sets detection returns alone in the model: empty
\* and complete (478 points); a set cut inside the left eyebrow's indices
\* (100 points) comes first of two
FaceLens == {0, 478}

\* outcomes of one detectForVideo call: it throws, it finds no face, it
\* returns one Landmark Set, or it returns two (a cut one first, a complete
\* one second)
DetectResults ==
  { [threw |-> TRUE, faceLandmarks |-> <<>>],
    [threw |-> FALSE, faceLandmarks |-> <<>>] }
  \cup { [threw |-> FALSE, faceLandmarks |-> <<MkLandmarks(n)>>] : n \in FaceLens }
  \cup { [threw |-> FALSE, faceLandmarks |-> <<MkLandmarks(100), MkLandmarks(478)>>] }

(***************************************************************************)
(* Clocks.                                                                 *)
(***************************************************************************)
\* performance.now() and Date.now(): two reads within one tick of the
\* clock's resolution return the same value
PerformanceNow == clock

DateNow == clock

(***************************************************************************)
(* Style Catalog.                                                          *)
(***************************************************************************)
CatalogIds == { styles[k].id : k \in 1..Len(styles) }

\* styles.find((s) => s.id === id): index of the first match, 0 for undefined
FindStyle(id) ==
  IF \E k \in 1..Len(styles) : styles[k].id = id
  THEN CHOOSE k \in 1..Len(styles) :
         /\ styles[k].id = id
         /\ \A j \in 1..(k - 1) : styles[j].id # id
  ELSE 0

\* faulty variant: the fallback is the catalog's last entry
ResolveStyleLastEntry(id) ==
  IF FindStyle(id) # 0 THEN styles[FindStyle(id)] ELSE styles[Len(styles)]

\* styles.find((s) => s.id === selectedStyleId) ?? styles[0]
ResolveStyle(id) == IF FindStyle(id) # 0 THEN styles[FindStyle(id)] ELSE styles[1]

\* faulty variant: "natural" has no case of its own and gets the default
getArchStrengthNoNatural(styleId) ==
  CASE styleId = "soft-flat" -> 30
    [] styleId = "flat" -> 15
    [] styleId = "arch" -> 70
    [] styleId = "strong-arch" -> 110
    [] OTHER -> 30

\* getArchStrength, in ten-thousandths
getArchStrength(styleId) ==
  CASE styleId = "natural" -> 0
    [] styleId = "soft-flat" -> 30
    [] styleId = "flat" -> 15
    [] styleId = "arch" -> 70
    [] styleId = "strong-arch" -> 110
    [] OTHER -> 30

(***************************************************************************)
(* Overlay Renderer.                                                       *)
(***************************************************************************)
\* landmarks[i] of a JavaScript array: undefined past the end
Lookup(landmarks, i) ==
  IF i < Len(landmarks)
  THEN [def |-> TRUE, x |-> landmarks[i + 1].x, y |-> landmarks[i + 1].y]
  ELSE [def |-> FALSE, x |-> 0, y |-> 0]

\* Math.sin(Math.PI * t) in thousandths for t = idx / 8 (both index lists
\* have nine entries), and for the single-entry case t = 0.5
SinTable == <<0, 383, 707, 924, 1000, 924, 707, 383, 0>>

SinPiT(idx, n) == IF n = 1 THEN 1000 ELSE SinTable[idx + 1]

\* faulty variant: no `if (!lm)` test, so lm.x of undefined is read
CurvePointUnchecked(lm, idx, n, style, w, h) ==
  [ok |-> lm.def,
   x |-> lm.x * w * 10000,
   y |-> lm.y * h * 10000 + style.offsetY * h * 10000
         - getArchStrength(style.id) * h * SinPiT(idx, n)]

\* the mapping callback of drawOneSide (curve renderer): the canvas point of
\* the idx-th (0-based) index; ok = FALSE stands for a TypeError
CurvePoint(lm, idx, n, style, w, h) ==
  IF ~lm.def
  THEN [ok |-> TRUE, x |-> 0, y |-> 0]
  ELSE [ok |-> TRUE,
        x |-> lm.x * w * 10000,
        y |-> lm.y * h * 10000 + style.offsetY * h * 10000
              - getArchStrength(style.id) * h * SinPiT(idx, n)]

\* drawOneSide of the curve renderer: the points its strokes go through
drawOneSide(landmarks, indices, style, w, h) ==
  IF Len(indices) = 0
  THEN [threw |-> FALSE, points |-> <<>>]
  ELSE LET pts == [k \in 1..Len(indices) |->
                     CurvePoint(Lookup(landmarks, indices[k]), k - 1,
                                Len(indices), style, w, h)]
       IN [threw |-> \E k \in 1..Len(indices) : ~pts[k].ok,
           points |-> [k \in 1..Len(indices) |-> [x |-> pts[k].x, y |-> pts[k].y]]]

\* drawEyebrows of the curve renderer: left side, then right side
drawEyebrows(landmarks, style, w, h) ==
  LET l == drawOneSide(landmarks, LEFT_EYEBROW, style, w, h)
      r == drawOneSide(landmarks, RIGHT_EYEBROW, style, w, h)
  IN [threw |-> l.threw \/ r.threw, L |-> l.points,
      R |-> IF l.threw THEN <<>> ELSE r.points]

\* ctx.lineWidth of the curve renderer: baseWidth (h * 0.012) * thickness
lineWidth(style, h) == h * 12 * style.thickness * 1000

\* `const spread = lineWidth * 0.18`
spread(style, h) == (lineWidth(style, h) * 18) \div 100

\* one path command; moveTo and lineTo have no control point, their cx, cy
\* repeat the end point
PathCmd(op, cx, cy, x, y) == [op |-> op, cx |-> cx, cy |-> cy, x |-> x, y |-> y]

\* smoothPath: moveTo the first point, a quadratic curve through every inner
\* point to the midpoint with its successor, lineTo the last point; nothing
\* for fewer than two points.  A midpoint is rounded down to the unit.
smoothPath(pts) ==
  IF Len(pts) < 2
  THEN <<>>
  ELSE <<PathCmd("moveTo", pts[1].x, pts[1].y, pts[1].x, pts[1].y)>>
       \o [i \in 1..(Len(pts) - 2) |->
            PathCmd("quadraticCurveTo", pts[i + 1].x, pts[i + 1].y,
                    (pts[i + 1].x + pts[i + 2].x) \div 2,
                    (pts[i + 1].y + pts[i + 2].y) \div 2)]
       \o <<PathCmd("lineTo", pts[Len(pts)].x, pts[Len(pts)].y,
                    pts[Len(pts)].x, pts[Len(pts)].y)>>

\* points.map((p) => ({ x: p.x, y: p.y + dy }))
Shifted(points, dy) == [k \in 1..Len(points) |-> [x |-> points[k].x, y |-> points[k].y + dy]]

\* the three paths drawOneSide strokes, in order: the main stroke, shiftedUp,
\* shiftedDown
Strokes(points, style, h) ==
  << smoothPath(points),
     smoothPath(Shifted(points, 0 - spread(style, h))),
     smoothPath(Shifted(points, spread(style, h))) >>

\* the paths drawOneSide of the curve renderer strokes for one side
drawOneSideStrokes(landmarks, indices, style, w, h) ==
  LET d == drawOneSide(landmarks, indices, style, w, h)
  IN IF Len(indices) = 0 \/ d.threw THEN <<>> ELSE Strokes(d.points, style, h)

\* the forEach callback of drawOneSide (polygon renderer): the path command
\* the idx-th index adds, none when the landmark is missing
PolygonVertex(lm, idx, style, w, h) ==
  IF ~lm.def
  THEN [ok |-> TRUE, cmds |-> <<>>]
  ELSE [ok |-> TRUE,
        cmds |-> << [op |-> IF idx = 0 THEN "moveTo" ELSE "lineTo",
                     x |-> lm.x * w * 10000,
                     y |-> (lm.y + style.offsetY) * h * 10000] >>]

RECURSIVE PolygonPath(_, _, _, _, _, _)
PolygonPath(landmarks, indices, k, style, w, h) ==
  IF k > Len(indices)
  THEN [threw |-> FALSE, path |-> <<>>]
  ELSE LET v == PolygonVertex(Lookup(landmarks, indices[k]), k - 1, style, w, h)
           rest == PolygonPath(landmarks, indices, k + 1, style, w, h)
       IN IF ~v.ok
          THEN [threw |-> TRUE, path |-> <<>>]
          ELSE [threw |-> rest.threw, path |-> v.cmds \o rest.path]

\* drawOneSide of the polygon renderer: the path it fills; `refill` says
\* whether the scaled copy is filled too (its vertices come from the same
\* lookups, with the same skip, and are not modelled)
drawOneSidePolygon(landmarks, indices, style, w, h) ==
  IF Len(indices) = 0
  THEN [threw |-> FALSE, path |-> <<>>, refill |-> FALSE]
  ELSE LET p == PolygonPath(landmarks, indices, 1, style, w, h)
       IN [threw |-> p.threw, path |-> p.path,
           refill |-> ~p.threw /\ style.thickness > 10]

\* drawEyebrows of the polygon renderer
drawEyebrowsPolygon(landmarks, style, w, h) ==
  LET l == drawOneSidePolygon(landmarks, LEFT_EYEBROW, style, w, h)
      r == drawOneSidePolygon(landmarks, RIGHT_EYEBROW, style, w, h)
  IN [threw |-> l.threw \/ r.threw, L |-> l.path,
      R |-> IF l.threw THEN <<>> ELSE r.path]

(***************************************************************************)
(* Frame Loop: one call of render().                                       *)
(***************************************************************************)
\* faulty variant: only the width is assigned
ResizeSurfaceWidthOnly(cv, vw, vh) ==
  IF cv.w # vw \/ cv.h # vh
  THEN [w |-> vw, h |-> cv.h, content |-> "blank"]
  ELSE cv

\* the canvas after `if (canvas.width !== vw || canvas.height !== vh)
\* { canvas.width = vw; canvas.height = vh; }` (assigning a size clears it)
ResizeSurface(cv, vw, vh) ==
  IF cv.w # vw \/ cv.h # vh
  THEN [w |-> vw, h |-> vh, content |-> "blank"]
  ELSE cv

\* the canvas after ctx.drawImage(video, 0, 0, vw, vh)
DrawImage(cv) == [cv EXCEPT !.content = "raw"]

\* the calls of the surface step, in order: the size assignment when it is
\* executed, then drawImage
SurfaceOps(cv, vw, vh) ==
  IF cv.w # vw \/ cv.h # vh THEN <<"resize", "drawImage">> ELSE <<"drawImage">>

\* `if (video.readyState < 2) return; ... if (!vw || !vh) return;`
VideoUsable(v) == v.readyState >= 2 /\ v.w # 0 /\ v.h # 0

\* faulty variant: the detector guard is missing
DetectorReadyUnchecked(lmRef, lr) == TRUE

\* `if (!landmarkerRef.current || !landmarkerReady) return;`
DetectorReady(lmRef, lr) == lmRef /\ lr

\* faulty variant: the timestamp guard is missing
SameTimestampDropped(lvt, now) == FALSE

\* `if (lastVideoTimeRef.current === nowInMs) return;`
SameTimestamp(lvt, now) == lvt = now

\* faulty variant: requestAnimationFrame is the last statement of render(),
\* reached only when no guard returned
RescheduledAtEnd(exit) == exit = "overlay"

\* frameId = requestAnimationFrame(render) is the first statement of
\* render(), so the call is made whatever the exit
Rescheduled(exit) == TRUE

\* faulty variant: the last detected Landmark Set is taken
LastFaceLandmarks(faceLandmarks) == faceLandmarks[Len(faceLandmarks)]

\* `const landmarks = result.faceLandmarks[0]`
FirstFaceLandmarks(faceLandmarks) == faceLandmarks[1]

\* what one call of render() does, given the closure's landmarkerReady (lr)
\* and selectedStyleId (sid), the time it reads and the detection outcome.
\* ops lists the calls it makes in order; guard and infer are the additions
\* to guardLog and inferLog.
RenderOutcome(v, cv, lmRef, lr, lvt, now, det, sid) ==
  LET none == [threw |-> FALSE, L |-> <<>>, R |-> <<>>]
      base == [exit |-> "videoNotReady", ops |-> <<"requestAnimationFrame">>,
               canvas |-> cv, lvt |-> lvt, guard |-> <<>>, infer |-> <<>>,
               lmLen |-> -1, faces |-> 0, style |-> "", overlay |-> none]
  IN IF v.readyState < 2
     THEN base
     ELSE IF v.w = 0 \/ v.h = 0
     THEN [base EXCEPT !.exit = "zeroSize"]
     ELSE
       LET cv2 == DrawImage(ResizeSurface(cv, v.w, v.h))
           drawn == [base EXCEPT !.canvas = cv2,
                       !.ops = base.ops \o SurfaceOps(cv, v.w, v.h)]
       IN IF ~DetectorReady(lmRef, lr)
          THEN [drawn EXCEPT !.exit = "detectorNotReady"]
          ELSE IF SameTimestamp(lvt, now)
          THEN [drawn EXCEPT !.exit = "sameTimestamp", !.guard = <<now>>]
          ELSE
            LET called == [drawn EXCEPT !.lvt = now, !.guard = <<now>>,
                             !.infer = <<now>>,
                             !.ops = drawn.ops \o <<"detectForVideo">>]
            IN IF det.threw
               THEN [called EXCEPT !.exit = "detectThrew"]
               ELSE IF Len(det.faceLandmarks) = 0
               THEN [called EXCEPT !.exit = "noFace"]
               ELSE
                 LET landmarks == FirstFaceLandmarks(det.faceLandmarks)
                     style == ResolveStyle(sid)
                     ov == drawEyebrows(landmarks, style, cv2.w, cv2.h)
                 IN [called EXCEPT
                       !.exit = IF ov.threw THEN "drawThrew" ELSE "overlay",
                       !.ops = called.ops \o <<"drawEyebrows">>,
                       !.canvas = [cv2 EXCEPT !.content = "overlay"],
                       !.lmLen = Len(landmarks),
                       !.faces = Len(det.faceLandmarks),
                       !.style = style.id,
                       !.overlay = ov]

\* the handle requestAnimationFrame returns: one no pending callback has and
\* that is not in `used` (the browser never hands out a handle twice; the
\* model reuses the handles nobody holds any more)
NewHandle(cbs, used) ==
  CHOOSE n \in 1..(Cardinality(cbs) + Cardinality(used) + 1) :
    /\ n \notin ({ c.id : c \in cbs } \cup used)
    /\ \A m \in 1..(n - 1) : m \in ({ c.id : c \in cbs } \cup used)

\* requestAnimationFrame(render): the browser holds one more callback
RequestAnimationFrame(cbs, cb) == cbs \cup {cb}

\* cancelAnimationFrame(id)
CancelAnimationFrame(cbs, id) == { c \in cbs : c.id # id }

\* one call of render() from a closure with values lr and sid, the browser
\* holding the callbacks `cbs` when it starts; id is the handle the call's
\* requestAnimationFrame returns
Render(cbs, id, lr, sid, det) ==
  \E o \in { RenderOutcome(video, canvas, landmarkerRef, lr, lastVideoTime,
                             PerformanceNow, det, sid) } :
  LET cb == [id |-> id, landmarkerReady |-> lr, selectedStyleId |-> sid]
  IN /\ Len(guardLog) + Len(o.guard) <= MaxLog
     /\ pending' = IF Rescheduled(o.exit) THEN RequestAnimationFrame(cbs, cb)
                   ELSE cbs
     /\ canvas' = o.canvas
     /\ lastVideoTime' = o.lvt
     /\ last' = [exit |-> o.exit, ops |-> o.ops, lmLen |-> o.lmLen,
                 faces |-> o.faces,
                 style |-> o.style, overlay |-> o.overlay,
                 published |-> landmarkerRef /\ landmarkerReady]
     /\ guardLog' = guardLog \o o.guard
     /\ inferLog' = inferLog \o o.infer
     /\ frameInfers' = frameInfers + Len(o.infer)

(***************************************************************************)
(* Capture Store.                                                          *)
(***************************************************************************)
\* canvas.toDataURL("image/png"): an encoding of the surface's pixels
ToDataURL(cv) == <<"png", cv.w, cv.h, cv.content>>

\* faulty variant: the new record is appended
handleCaptureAppend(prev, canvasPresent, cv, t) ==
  IF ~canvasPresent
  THEN prev
  ELSE prev \o <<[url |-> ToDataURL(cv), createdAt |-> t]>>

\* handleCapture: the capture list after one trigger
handleCapture(prev, canvasPresent, cv, t) ==
  IF ~canvasPresent
  THEN prev
  ELSE <<[url |-> ToDataURL(cv), createdAt |-> t]>> \o prev

(***************************************************************************)
(* Initial state: the view is mounted and its effects have run once;       *)
(* getUserMedia and the model load are in flight, the render effect        *)
(* returned at its guard.                                                  *)
(***************************************************************************)
NoProbe == [n |-> 0, styleId |-> "natural", w |-> 0, h |-> 0]

NoOut == [fn |-> "none"]

NoRender == [exit |-> "none", ops |-> <<>>, lmLen |-> -1, faces |-> 0,
             style |-> "",
             overlay |-> [threw |-> FALSE, L |-> <<>>, R |-> <<>>],
             published |-> FALSE]

InitPage ==
  /\ mounted = TRUE
  /\ camera = "pending"
  /\ stream = "null"
  /\ srcObject = FALSE
  /\ video = NoVideo
  /\ model = "loading"
  /\ landmarkerRef = FALSE
  /\ cameraReady = FALSE
  /\ landmarkerReady = FALSE
  /\ errorMsg = "null"
  /\ selectedStyleId = "natural"
  /\ captures = <<>>
  /\ canvas = DefaultCanvas
  /\ lastVideoTime = -1
  /\ clock = 0
  /\ pending = {}
  /\ frameId = 0
  /\ effDeps = [cameraReady |-> FALSE, landmarkerReady |-> FALSE,
                selectedStyleId |-> "natural"]
  /\ last = NoRender
  /\ guardLog = <<>>
  /\ inferLog = <<>>
  /\ trigLog = <<>>
  /\ frameInfers = 0

Init ==
  /\ InitPage
  /\ probe = NoProbe
  /\ probeOut = NoOut

(***************************************************************************)
(* Camera acquisition (startCamera and the cleanup of its effect).         *)
(***************************************************************************)
\* setState of a mounted component takes effect; of an unmounted one it is
\* ignored
SetState(old, new) == IF mounted THEN new ELSE old

\* faulty variant: a message is set only into an empty slot
setErrorMsgIfEmpty(old, msg) == IF old = "null" THEN SetState(old, msg) ELSE old

\* setErrorMsg(msg): the single message slot takes the new message
setErrorMsg(old, msg) == SetState(old, msg)

\* getUserMedia resolves: `stream` is assigned; the stream is attached to the
\* video only if videoRef.current is non-null
CameraGranted ==
  /\ camera = "pending"
  /\ camera' = "granted"
  /\ stream' = "running"
  /\ srcObject' = mounted
  /\ UNCHANGED <<mounted, video, model, landmarkerRef, cameraReady,
                 landmarkerReady, errorMsg, selectedStyleId, captures, canvas,
                 lastVideoTime, clock, pending, frameId, effDeps, last,
                 guardLog, inferLog, trigLog, probe, probeOut, frameInfers>>

\* getUserMedia rejects: the catch block sets the camera message
CameraDenied ==
  /\ camera = "pending"
  /\ camera' = "denied"
  /\ errorMsg' = setErrorMsg(errorMsg, "camera")
  /\ UNCHANGED <<mounted, stream, srcObject, video, model, landmarkerRef,
                 cameraReady, landmarkerReady, selectedStyleId, captures,
                 canvas, lastVideoTime, clock, pending, frameId, effDeps, last, guardLog, inferLog, trigLog, probe, probeOut, frameInfers>>

\* the video fires loadedmetadata: onloadedmetadata plays it and sets
\* cameraReady
LoadedMetadata ==
  /\ srcObject
  /\ stream = "running"
  /\ video.readyState = 0
  /\ video' = [readyState |-> 1, w |-> 0, h |-> 0]
  /\ cameraReady' = SetState(cameraReady, TRUE)
  /\ UNCHANGED <<mounted, camera, stream, srcObject, model, landmarkerRef,
                 landmarkerReady, errorMsg, selectedStyleId, captures, canvas,
                 lastVideoTime, clock, pending, frameId, effDeps, last,
                 guardLog, inferLog, trigLog, probe, probeOut, frameInfers>>

\* the playing video decodes, stalls, or changes its natural size; what it
\* presents afterwards counts as a frame no inference has seen
VideoChange ==
  /\ srcObject
  /\ stream = "running"
  /\ video.readyState >= 1
  /\ \E v \in VideoStates : v # video /\ video' = v
  /\ frameInfers' = 0
  /\ UNCHANGED <<mounted, camera, stream, srcObject, model, landmarkerRef,
                 cameraReady, landmarkerReady, errorMsg, selectedStyleId,
                 captures, canvas, lastVideoTime, clock, pending, frameId,
                 effDeps, last, guardLog, inferLog, trigLog, probe,
                 probeOut>>

\* the playing video presents its next frame (same readiness, same size)
NewVideoFrame ==
  /\ srcObject
  /\ stream = "running"
  /\ video.readyState >= 2
  /\ frameInfers # 0
  /\ frameInfers' = 0
  /\ UNCHANGED <<mounted, camera, stream, srcObject, video, model,
                 landmarkerRef, cameraReady, landmarkerReady, errorMsg,
                 selectedStyleId, captures, canvas, lastVideoTime, clock,
                 pending, frameId, effDeps, last, guardLog, inferLog, trigLog,
                 probe, probeOut>>

(***************************************************************************)
(* Landmark Source initialisation (initLandmarker).                        *)
(***************************************************************************)
ModelLoaded ==
  /\ model = "loading"
  /\ model' = "loaded"
  /\ landmarkerRef' = TRUE
  /\ landmarkerReady' = SetState(landmarkerReady, TRUE)
  /\ UNCHANGED <<mounted, camera, stream, srcObject, video, cameraReady,
                 errorMsg, selectedStyleId, captures, canvas, lastVideoTime,
                 clock, pending, frameId, effDeps, last, guardLog,
                 inferLog, trigLog, probe, probeOut, frameInfers>>

ModelFailed ==
  /\ model = "loading"
  /\ model' = "failed"
  /\ errorMsg' = setErrorMsg(errorMsg, "model")
  /\ UNCHANGED <<mounted, camera, stream, srcObject, video, landmarkerRef,
                 cameraReady, landmarkerReady, selectedStyleId, captures,
                 canvas, lastVideoTime, clock, pending, frameId, effDeps, last, guardLog, inferLog, trigLog, probe, probeOut, frameInfers>>

(***************************************************************************)
(* The render effect and the animation-frame callbacks.                    *)
(***************************************************************************)
\* the dependency array [cameraReady, landmarkerReady, selectedStyleId,
\* styles] (styles never changes)
CurDeps == [cameraReady |-> cameraReady, landmarkerReady |-> landmarkerReady,
            selectedStyleId |-> selectedStyleId]

\* faulty variant: the effect does not test cameraReady
EffectGuardNoCamera == mounted

\* `if (!cameraReady || !videoRef.current || !canvasRef.current) return;`
\* (both refs are non-null while the view is mounted)
EffectGuard == cameraReady /\ mounted

\* faulty variant: the cleanup cancels nothing
EffectCleanupNothing(cbs, id) == cbs

\* the effect's cleanup, `() => cancelAnimationFrame(frameId)`; it exists
\* only when the effect's last run passed its guard
EffectCleanup(cbs, id) == IF id # 0 THEN CancelAnimationFrame(cbs, id) ELSE cbs

\* one run of the effect: the cleanup of the previous run, then the body,
\* which closes over landmarkerReady (lr) and selectedStyleId (sid) and calls
\* render() once itself
RunEffect(lr, sid) ==
  LET cbs == EffectCleanup(pending, frameId)
      id == NewHandle(cbs, {frameId})
  IN IF EffectGuard
     THEN /\ frameId' = id
          /\ \E det \in DetectResults : Render(cbs, id, lr, sid, det)
     ELSE /\ pending' = cbs
          /\ frameId' = 0
          /\ UNCHANGED <<canvas, lastVideoTime, last, guardLog, inferLog,
                         frameInfers>>

\* React re-runs the effect after cameraReady or landmarkerReady changed.
\* Both are set outside React's event handlers, so the effect runs in a
\* later task than the setState call.
FlushEffect ==
  /\ mounted
  /\ effDeps # CurDeps
  /\ effDeps' = CurDeps
  /\ UNCHANGED <<mounted, camera, stream, srcObject, video, model,
                 landmarkerRef, cameraReady, landmarkerReady, errorMsg,
                 selectedStyleId, captures, clock, trigLog, probe, probeOut>>
  /\ RunEffect(landmarkerReady, selectedStyleId)

\* the browser runs one animation-frame callback; the callback's own frameId
\* is the installed effect's when the callback is the one that effect holds
AnimationFrame ==
  /\ pending # {}
  /\ UNCHANGED <<mounted, camera, stream, srcObject, video, model,
                 landmarkerRef, cameraReady, landmarkerReady, errorMsg,
                 selectedStyleId, captures, clock, effDeps, trigLog, probe,
                 probeOut>>
  /\ \E cb \in pending : \E det \in DetectResults :
       LET id == NewHandle(pending \ {cb}, {cb.id, frameId})
       IN /\ frameId' = IF cb.id = frameId THEN id ELSE frameId
          /\ Render(pending \ {cb}, id, cb.landmarkerReady,
                    cb.selectedStyleId, det)

(***************************************************************************)
(* User controls, time, teardown.                                          *)
(***************************************************************************)
\* a style button: setSelectedStyleId(style.id).  A click is a discrete
\* event: React renders and runs the changed effects before the task ends,
\* after any effect run that was still outstanding (FlushEffect).
SelectStyle ==
  /\ mounted
  /\ effDeps = CurDeps
  /\ \E k \in 1..Len(styles) :
       /\ styles[k].id # selectedStyleId
       /\ selectedStyleId' = styles[k].id
       /\ effDeps' = [effDeps EXCEPT !.selectedStyleId = styles[k].id]
       /\ RunEffect(landmarkerReady, styles[k].id)
  /\ UNCHANGED <<mounted, camera, stream, srcObject, video, model,
                 landmarkerRef, cameraReady, landmarkerReady, errorMsg,
                 captures, clock, trigLog, probe, probeOut>>

\* the capture button is rendered with disabled={!cameraReady}
CaptureEnabled == mounted /\ cameraReady

\* the capture button is clicked
Capture ==
  /\ CaptureEnabled
  /\ Len(captures) < MaxCaptures
  /\ captures' = handleCapture(captures, mounted, canvas, DateNow)
  /\ trigLog' = Append(trigLog, [url |-> ToDataURL(canvas), createdAt |-> DateNow])
  /\ UNCHANGED <<mounted, camera, stream, srcObject, video, model,
                 landmarkerRef, cameraReady, landmarkerReady, errorMsg,
                 selectedStyleId, canvas, lastVideoTime, clock, pending,
                 frameId, effDeps, last, guardLog, inferLog, probe,
                 probeOut, frameInfers>>

\* time passes
Tick ==
  /\ clock < MaxClock
  /\ clock' = clock + 1
  /\ UNCHANGED <<mounted, camera, stream, srcObject, video, model,
                 landmarkerRef, cameraReady, landmarkerReady, errorMsg,
                 selectedStyleId, captures, canvas, lastVideoTime, pending,
                 frameId, effDeps, last, guardLog, inferLog, trigLog,
                 probe, probeOut, frameInfers>>

\* the cleanup of the camera effect: `if (stream) stream.getTracks()
\* .forEach((t) => t.stop())`
StopTracks(st) == IF st # "null" THEN "stopped" ELSE st

\* the view is torn down: React runs the cleanups of the camera effect and
\* of the render effect
Unmount ==
  /\ mounted
  /\ mounted' = FALSE
  /\ stream' = StopTracks(stream)
  /\ pending' = EffectCleanup(pending, frameId)
  /\ UNCHANGED <<camera, srcObject, video, model, landmarkerRef, cameraReady,
                 landmarkerReady, errorMsg, selectedStyleId, captures, canvas,
                 lastVideoTime, clock, frameId, effDeps, last, guardLog,
                 inferLog, trigLog, probe, probeOut, frameInfers>>

(***************************************************************************)
(* Specifications.                                                         *)
(*                                                                         *)
(* Capture writes only `captures` and `trigLog`, which no other action     *)
(* reads, and reads only mounted, cameraReady, canvas and clock.  Spec is  *)
(* the page without the capture button being used; SpecCapture is the page *)
(* with it used, while the model is still loading and the style is left    *)
(* alone (the surface then shows the raw frame at most).                   *)
(***************************************************************************)
Next ==
  \/ CameraGranted
  \/ CameraDenied
  \/ LoadedMetadata
  \/ VideoChange
  \/ NewVideoFrame
  \/ ModelLoaded
  \/ ModelFailed
  \/ FlushEffect
  \/ AnimationFrame
  \/ SelectStyle
  \/ Tick
  \/ Unmount

Spec == Init /\ [][Next]_vars

\* the browser runs a pending animation-frame callback at the next frame,
\* and React runs an outstanding effect
FairSpec == Spec /\ WF_vars(AnimationFrame) /\ WF_vars(FlushEffect)

NextCapture ==
  \/ CameraGranted
  \/ CameraDenied
  \/ LoadedMetadata
  \/ VideoChange
  \/ FlushEffect
  \/ AnimationFrame
  \/ Capture
  \/ Tick
  \/ Unmount

SpecCapture == Init /\ [][NextCapture]_vars

(***************************************************************************)
(* The pure functions on their own: style resolution, the two overlay      *)
(* renderers and one render() call, applied to an input drawn from         *)
(* ProbeInputs.  The page's state stays as constructed.                    *)
(***************************************************************************)
\* lengths of the Landmark Sets tried: around every cut the two index lists
\* can suffer (empty, before/after the smallest and largest index of each
\* side), and complete
ProbeLens == {0, 52, 53, 107, 157, 282, 283, 383, 384, 478}

\* style identifiers tried: the catalog's and three that are not in it
ProbeStyleIds == CatalogIds \cup {"", "Natural", "bold"}

ProbeInputs ==
  { [n |-> n, styleId |-> id, w |-> d[1], h |-> d[2]] :
      n \in ProbeLens, id \in ProbeStyleIds, d \in VideoDims \ {<<0, 0>>} }

InitRender ==
  /\ InitPage
  /\ probe \in ProbeInputs
  /\ probeOut = NoOut

pageVars == <<mounted, camera, stream, srcObject, video, model, landmarkerRef,
              cameraReady, landmarkerReady, errorMsg, selectedStyleId,
              captures, canvas, lastVideoTime, clock, pending, frameId,
              effDeps, last, guardLog, inferLog, trigLog, frameInfers>>

ApplyResolveStyle ==
  /\ probeOut' = [fn |-> "ResolveStyle", style |-> ResolveStyle(probe.styleId)]
  /\ UNCHANGED <<pageVars, probe>>

ApplyDrawEyebrows ==
  /\ probeOut' = [fn |-> "drawEyebrows",
                  out |-> drawEyebrows(MkLandmarks(probe.n),
                                       ResolveStyle(probe.styleId),
                                       probe.w, probe.h)]
  /\ UNCHANGED <<pageVars, probe>>

ApplyDrawEyebrowsPolygon ==
  /\ probeOut' = [fn |-> "drawEyebrowsPolygon",
                  out |-> drawEyebrowsPolygon(MkLandmarks(probe.n),
                                              ResolveStyle(probe.styleId),
                                              probe.w, probe.h)]
  /\ UNCHANGED <<pageVars, probe>>

\* one render() call with the video playing at the probe's size, the
\* detector ready and returning the probe's Landmark Set
ApplyRender ==
  /\ probeOut' =
       [fn |-> "render",
        out |-> RenderOutcome([readyState |-> 2, w |-> probe.w, h |-> probe.h],
                              canvas, TRUE, TRUE, lastVideoTime, PerformanceNow,
                              [threw |-> FALSE,
                               faceLandmarks |-> <<MkLandmarks(probe.n)>>],
                              probe.styleId)]
  /\ UNCHANGED <<pageVars, probe>>

\* the strokes of the curve renderer, both sides
ApplyStrokes ==
  /\ probeOut' =
       [fn |-> "strokes",
        L |-> drawOneSideStrokes(MkLandmarks(probe.n), LEFT_EYEBROW,
                                 ResolveStyle(probe.styleId), probe.w, probe.h),
        R |-> drawOneSideStrokes(MkLandmarks(probe.n), RIGHT_EYEBROW,
                                 ResolveStyle(probe.styleId), probe.w, probe.h)]
  /\ UNCHANGED <<pageVars, probe>>

NextRender ==
  \/ ApplyStrokes
  \/ ApplyResolveStyle
  \/ ApplyDrawEyebrows
  \/ ApplyDrawEyebrowsPolygon
  \/ ApplyRender

SpecRender == InitRender /\ [][NextRender]_vars

(***************************************************************************)
(* Properties.                                                             *)
(***************************************************************************)
Range(seq) == { seq[i] : i \in 1..Len(seq) }

Has(seq, x) == \E i \in 1..Len(seq) : seq[i] = x

Reverse(seq) == [i \in 1..Len(seq) |-> seq[Len(seq) + 1 - i]]

\* a step in which the installed loop's render() was called: its
\* requestAnimationFrame gave frameId a new handle
RenderCalled == frameId' # frameId /\ frameId' # 0

\* C1: of the render() calls that reach the timestamp guard (the clock never
\* goes back, the last-processed timestamp survives every restart of the
\* loop), detectForVideo is called exactly once for each distinct timestamp
\* and never twice with the same one.
C1_InferenceOncePerTimestamp ==
  /\ \A i, j \in 1..Len(inferLog) : i # j => inferLog[i] # inferLog[j]
  /\ Range(inferLog) = Range(guardLog)
  /\ Len(inferLog) = Cardinality(Range(guardLog))

\* C1 witness: the guard was reached with timestamps T, T, T, T+1 and
\* detectForVideo was called twice, with T and with T+1
C1_Witness ==
  \E t \in 0..(MaxClock - 1) :
    /\ guardLog = <<t, t, t, t + 1>>
    /\ inferLog = <<t, t + 1>>

\* C2: a style identifier that is not in the catalog resolves to the
\* catalog's first entry, "natural", and the render() call that uses it
\* draws the overlay without failing; an identifier of the catalog resolves
\* to the entry with that id.
C2_StyleResolution ==
  /\ probeOut.fn = "ResolveStyle" =>
       IF probe.styleId \in CatalogIds
       THEN probeOut.style \in Range(styles) /\ probeOut.style.id = probe.styleId
       ELSE probeOut.style = styles[1] /\ probeOut.style.id = "natural"
  /\ probeOut.fn = "render" =>
       /\ probeOut.out.exit = "overlay"
       /\ probeOut.out.style =
            IF probe.styleId \in CatalogIds THEN probe.styleId ELSE "natural"

\* C2 witness: a render() call with an identifier outside the catalog drew
\* the overlay with "natural"
C2_Witness ==
  /\ probe.styleId \notin CatalogIds
  /\ probeOut.fn = "render"
  /\ probeOut.out.exit = "overlay"
  /\ probeOut.out.style = "natural"

\* C3: after every render() call that finds the video with readyState >= 2
\* and a non-zero size, the surface has the video's size, whatever size it
\* had before.
C3_SurfaceMatchesVideo ==
  [][ (RenderCalled /\ VideoUsable(video)) =>
        (canvas'.w = video.w /\ canvas'.h = video.h) ]_vars

\* C3 witness: a render() call resized a surface that an earlier call had
\* already sized and drawn (the video's size changed between the two calls)
C3_Witness ==
  /\ last.exit = "sameTimestamp"
  /\ Has(last.ops, "resize")
  /\ canvas.w = video.w
  /\ canvas.h = video.h
  /\ VideoUsable(video)

\* C4: the capture list is the list of triggers in reverse order: one record
\* per trigger, the latest first, none removed, merged or changed.
C4_PrependOnly == captures = Reverse(trigLog)

\* C4 witness: two triggers produced two different records
C4_Witness ==
  /\ Len(trigLog) = 2
  /\ Len(captures) = 2
  /\ captures[1] # captures[2]

\* C5: the creation timestamps of the capture list are strictly decreasing
\* from the first (latest) record on, so no two records share one.
C5_StrictlyIncreasingTimestamps ==
  \A i, j \in 1..Len(captures) :
    i < j => captures[i].createdAt > captures[j].createdAt

\* C6: once getUserMedia has rejected, cameraReady is false, the capture
\* button is disabled, the render effect has never passed its guard (no
\* callback is pending, render() has never run, the surface is untouched),
\* and the rejection is final.
C6_CameraDeniedStaysNotReady ==
  /\ [](camera = "denied" =>
          /\ ~cameraReady
          /\ ~CaptureEnabled
          /\ frameId = 0
          /\ pending = {}
          /\ last = NoRender
          /\ canvas = DefaultCanvas
          /\ stream = "null")
  /\ [][camera = "denied" => camera' = "denied"]_vars

\* C6 witness: access was denied, the model loaded, and the render effect
\* re-ran with landmarkerReady set
C6_Witness ==
  /\ camera = "denied"
  /\ mounted
  /\ model = "loaded"
  /\ landmarkerReady
  /\ effDeps = CurDeps
  /\ errorMsg = "camera"

\* a Landmark Set of n points lacks a point some eyebrow index refers to
ShortSet(n) ==
  \/ \E k \in 1..Len(LEFT_EYEBROW) : LEFT_EYEBROW[k] >= n
  \/ \E k \in 1..Len(RIGHT_EYEBROW) : RIGHT_EYEBROW[k] >= n

\* C7: for a Landmark Set that lacks a referenced point (the empty set
\* included) neither renderer throws, on either side, and the render() call
\* that passed the set ends normally, the overlay drawn.
C7_ShortSetDoesNotThrow ==
  ShortSet(probe.n) =>
    /\ probeOut.fn = "drawEyebrows" =>
         /\ ~probeOut.out.threw
         /\ Len(probeOut.out.L) = Len(LEFT_EYEBROW)
         /\ Len(probeOut.out.R) = Len(RIGHT_EYEBROW)
    /\ probeOut.fn = "drawEyebrowsPolygon" => ~probeOut.out.threw
    /\ probeOut.fn = "render" =>
         /\ probeOut.out.exit = "overlay"
         /\ ~probeOut.out.overlay.threw
         /\ probeOut.out.lmLen = probe.n

\* C7 witness: the curve renderer drew from a set cut inside the left
\* eyebrow's indices
C7_Witness ==
  /\ probe.n = 107
  /\ probeOut.fn = "drawEyebrows"
  /\ ~probeOut.out.threw

\* C8: once the view is torn down and getUserMedia has settled, no acquired
\* stream is still running.
C8_StreamReleasedAfterTeardown ==
  (~mounted /\ camera # "pending") => stream # "running"

\* the render effect has a loop installed
LoopInstalled == mounted /\ frameId # 0

\* C9: render() calls requestAnimationFrame first, so after every call,
\* whatever its exit, exactly one callback of the loop is pending, and it
\* runs (or the loop is torn down or restarted); detectForVideo is called at
\* most once per render() call.  The last conjunct says that a loop that
\* stays installed keeps making render() calls: either the loop is again and
\* again not installed (or the log bound of the model is reached), or
\* render() is called again and again.
C9_LoopKeepsRunning ==
  /\ [](LoopInstalled =>
          /\ Cardinality(pending) = 1
          /\ \A c \in pending : c.id = frameId
          /\ frameId \in 1..2)
  /\ [](last # NoRender =>
          /\ last.ops[1] = "requestAnimationFrame"
          /\ Cardinality({ i \in 1..Len(last.ops) :
                             last.ops[i] = "detectForVideo" }) <= 1)
  /\ \/ []<>(~(LoopInstalled /\ Len(guardLog) < MaxLog))
     \/ []<><<RenderCalled>>_vars

\* C9 witness: a render() call whose detectForVideo threw left one callback
\* pending
C9_Witness ==
  /\ LoopInstalled
  /\ last.exit = "detectThrew"
  /\ Cardinality(pending) = 1

\* position of the first x in seq, 0 when absent
IndexOf(seq, x) ==
  IF Has(seq, x) THEN CHOOSE i \in 1..Len(seq) :
                        seq[i] = x /\ \A j \in 1..(i - 1) : seq[j] # x
  ELSE 0

\* C10: every render() call that finds the video usable draws the raw frame,
\* whatever the state of the Landmark Source; it draws the overlay only when
\* the Landmark Source is ready and returned a face in that call, and after
\* the raw frame.
C10_RawFrameAlwaysOverlayOnlyWithFace ==
  [][ RenderCalled =>
        /\ VideoUsable(video) =>
             /\ Has(last'.ops, "drawImage")
             /\ canvas'.content \in {"raw", "overlay"}
             /\ canvas'.content = "overlay" => Has(last'.ops, "drawEyebrows")
        /\ Has(last'.ops, "drawEyebrows") =>
             /\ VideoUsable(video)
             /\ landmarkerRef
             /\ model = "loaded"
             /\ Has(last'.ops, "detectForVideo")
             /\ last'.lmLen >= 0
             /\ IndexOf(last'.ops, "drawImage") > 0
             /\ IndexOf(last'.ops, "drawImage") < IndexOf(last'.ops, "drawEyebrows")
    ]_vars

\* C10 witness: the model failed to load and a render() call drew the raw
\* frame
C10_Witness ==
  /\ model = "failed"
  /\ mounted
  /\ last.exit = "detectorNotReady"
  /\ canvas.content = "raw"

\* every path command of a stroke lies on pixel row `row` (control point and
\* end point)
OnRow(path, row) ==
  \A k \in 1..Len(path) : path[k].cy = row /\ path[k].y = row

\* C11: curve renderer, style "natural", every left-eyebrow index mapped to
\* a landmark with y = 0.4: every vertex of the main stroke is on row
\* 0.4 * height, and the two extra strokes are on that row minus and plus
\* 0.18 of the line width (0.012 * height for thickness 1.0).
C11_NaturalMidlineOnRow ==
  ( /\ probeOut.fn = "strokes"
    /\ probe.styleId = "natural"
    /\ \A k \in 1..Len(LEFT_EYEBROW) :
         /\ Lookup(MkLandmarks(probe.n), LEFT_EYEBROW[k]).def
         /\ Lookup(MkLandmarks(probe.n), LEFT_EYEBROW[k]).y = 400 )
  => /\ Len(probeOut.L) = 3
     /\ Len(probeOut.L[1]) = Len(LEFT_EYEBROW)
     /\ OnRow(probeOut.L[1], 4000000 * probe.h)
     /\ OnRow(probeOut.L[2], 4000000 * probe.h - 21600 * probe.h)
     /\ OnRow(probeOut.L[3], 4000000 * probe.h + 21600 * probe.h)

\* C11 witness: the strokes of the left side were computed for style
\* "natural" from a complete Landmark Set on a surface 3 pixels high
C11_Witness ==
  /\ probeOut.fn = "strokes"
  /\ probe.styleId = "natural"
  /\ probe.n = 478
  /\ probe.h = 3
  /\ Len(probeOut.L) = 3
  /\ probeOut.L[1][1].op = "moveTo"
  /\ probeOut.L[1][1].y = 12000000

\* C12: errorMsg is one slot holding no message, the camera message or the
\* model message.  While the view is mounted, a getUserMedia rejection puts
\* the camera message there and a model-load failure the model message,
\* whatever was there before, and no other step changes the slot; so with
\* both failed the slot holds the message of the later failure.
C12_SingleErrorSlot ==
  /\ [](errorMsg \in {"null", "camera", "model"})
  /\ [][ /\ (mounted /\ camera = "pending" /\ camera' = "denied")
            => errorMsg' = "camera"
         /\ (mounted /\ model = "loading" /\ model' = "failed")
            => errorMsg' = "model"
         /\ errorMsg' # errorMsg
            => \/ camera = "pending" /\ camera' = "denied"
               \/ model = "loading" /\ model' = "failed" ]_vars

\* C12 witness: the model load failed first, getUserMedia was rejected
\* after it, and the slot holds the camera message
C12_Witness ==
  /\ mounted
  /\ model = "failed"
  /\ camera = "denied"
  /\ errorMsg = "camera"
  /\ effDeps = CurDeps

\* the indices of a side that have a point in a Landmark Set of n points
PresentIndices(indices, n) == { k \in 1..Len(indices) : indices[k] < n }

\* a side's vertices are those of its present indices only: as many as
\* there are present indices, none at pixel (0, 0)
SkipsMissing(vertices, indices, n) ==
  /\ Len(vertices) = Cardinality(PresentIndices(indices, n))
  /\ \A k \in 1..Len(vertices) : ~(vertices[k].x = 0 /\ vertices[k].y = 0)

\* C13: in both renderers a referenced index without a point in the
\* Landmark Set contributes no vertex: each side has as many vertices as it
\* has indices present in the set, and none at pixel (0, 0).
C13_MissingIndexSkipped ==
  probeOut.fn \in {"drawEyebrows", "drawEyebrowsPolygon"} =>
    /\ SkipsMissing(probeOut.out.L, LEFT_EYEBROW, probe.n)
    /\ SkipsMissing(probeOut.out.R, RIGHT_EYEBROW, probe.n)

\* C14: detectForVideo is called at most once on a video frame: of the
\* render() calls made while the video presents one and the same frame, at
\* most one reaches detectForVideo.
C14_InferenceOncePerVideoFrame == frameInfers <= 1

\* C15: tearing the loop down (unmount, or a restart of the effect after
\* cameraReady, landmarkerReady or selectedStyleId changed) cancels the
\* callback the loop had pending, so no callback of a torn-down loop is left
\* to run: at most one callback is pending, it is the installed effect's own
\* (its handle is the effect's frameId, its closure holds the values the
\* effect last ran with), and none is pending once the view is unmounted.
C15_TornDownLoopCancelled ==
  /\ Cardinality(pending) <= 1
  /\ ~mounted => pending = {}
  /\ \A c \in pending :
       /\ c.id = frameId
       /\ effDeps.cameraReady
       /\ c.landmarkerReady = effDeps.landmarkerReady
       /\ c.selectedStyleId = effDeps.selectedStyleId

\* C15 witness: the loop ran, was restarted by a style change, ran again,
\* and the view was then unmounted with its callback cancelled
C15_Witness ==
  /\ ~mounted
  /\ frameId # 0
  /\ effDeps.selectedStyleId # "natural"
  /\ effDeps.landmarkerReady
  /\ last.exit = "overlay"
  /\ pending = {}

\* C16: with the camera ready, a render() call made after a render() call
\* that already ran with the readiness of the Landmark Source published
\* (landmarkerRef.current set, landmarkerReady true) does not return at the
\* detector guard: at most one call after the publication still treats the
\* detector as not ready.
C16_ReadyWithinOneFrame ==
  [][ (RenderCalled /\ last.published) => last'.exit # "detectorNotReady" ]_vars

\* C17: selectedStyleId is "natural" at first and always the id of a catalog
\* entry; it changes only in a step of the mounted view that sets it to a
\* catalog id (a style button).  Every render() call that draws the overlay
\* draws it with the catalog entry selected when the call runs (the middle
\* point of the left side, where offset and arch act most, is that entry's),
\* from the first Landmark Set of the detection result (when two are
\* returned, the cut one of 100 points, which is the first).
C17_SelectedStyleDrawn ==
  /\ selectedStyleId = "natural"
  /\ [](selectedStyleId \in CatalogIds)
  /\ [][ /\ selectedStyleId' # selectedStyleId
            => mounted /\ selectedStyleId' \in CatalogIds
         /\ (RenderCalled /\ Has(last'.ops, "drawEyebrows"))
            => /\ last'.style = selectedStyleId'
               /\ last'.overlay.L[5]
                    = LET p == CurvePoint(Lookup(MkLandmarks(last'.lmLen),
                                                 LEFT_EYEBROW[5]),
                                          4, Len(LEFT_EYEBROW),
                                          styles[FindStyle(selectedStyleId')],
                                          canvas'.w, canvas'.h)
                      IN [x |-> p.x, y |-> p.y]
               /\ last'.faces >= 1
               /\ last'.faces = 2 => last'.lmLen = 100 ]_vars

\* C17 witness: after a change of the selection a render() call drew the
\* overlay with the newly selected style from a result of two Landmark Sets
C17_Witness ==
  /\ mounted
  /\ selectedStyleId = "arch"
  /\ last.exit = "overlay"
  /\ last.style = "arch"
  /\ last.faces = 2
  /\ last.lmLen = 100

====
